---- MODULE Spec2Model ----
(***************************************************************************)
(* Model of the chat_p2p repository: the tracker (peer registry service)   *)
(* of backend/tracker/main.py and the peer node of backend/peer/node.py.   *)
(*                                                                         *)
(* Six specifications share this module:                                   *)
(*   TrackerSpec - the registry store, its HTTP handlers and the periodic  *)
(*                 cleanup task, with a clock;                             *)
(*   Spec        - one P2PNode ("alice"), the connections remote peers     *)
(*                 open to it and those it opens with connect_to_peer;     *)
(*   SendSpec    - the node sends and broadcasts on inbound connections;   *)
(*   StopSpec    - the node is started and stopped while connections are   *)
(*                 served and its heartbeat task runs;                     *)
(*   DisconnectSpec - the node disconnects from peers whose connections    *)
(*                 are being served;                                       *)
(*   RegisterSpec - the tracker serves concurrent POST /register calls.    *)
(***************************************************************************)
EXTENDS Integers, Sequences, FiniteSets, TLC

(* ------------------------------ bounds --------------------------------- *)
\* the tracker clock stops here
MaxTime == 6
\* TCP connections the node takes part in, inbound and outbound together
MaxChan == 2
\* frames a remote peer has written that the node has not read yet
MaxInbox == 2
\* frames a remote peer writes on one connection
MaxPeerFrames == 3
\* message frames the node writes on one connection before callers stop sending
MaxSend == 1
\* connections in StopSpec and DisconnectSpec
StopChans == 1
\* POST /register requests the tracker serves at a time
MaxReq == 2

(* ------------------------- program constants --------------------------- *)
\* cleanup_inactive_peers(db, threshold_minutes = 2)
threshold_minutes == 2
\* periodic_cleanup: await asyncio.sleep(30)
cleanup_sleep == 30
\* the clock of the model counts cleanup periods (30 s each)
SecondsPerTick == cleanup_sleep
\* the period of periodic_cleanup, in ticks
period == cleanup_sleep \div SecondsPerTick
\* timedelta(minutes = threshold_minutes), in ticks
threshold == (threshold_minutes * 60) \div SecondsPerTick

(* ------------------------------ names ---------------------------------- *)
\* the username of the modelled node
Self == "alice"
\* the remote peers
Users == {"bob", "carol"}
\* a username nobody registered
Stranger == "dave"
\* every username the tracker model knows of
Usernames == Users \cup {Self}
\* the peers that call the tracker in TrackerSpec
Clients == {Self, "bob"}
\* the key handshake.get('username') yields when the field is missing (None)
NoName == "None"
\* the keys the Connection Table can hold
Keys == Users \cup {NoName}
\* the usernames a caller may pass to connect_to_peer
Targets == Users \cup {Self, Stranger}
\* connection identifiers: a (reader, writer) pair
Chans == 1 .. MaxChan
\* addresses a peer may register
Hosts == {"10.0.0.1", "10.0.0.2"}
Ports == {5000}
\* the POST /register requests in flight
Reqs == 1 .. MaxReq

VARIABLES
    \* ---- tracker ----
    db,             \* table peers: username -> row, or NoRow
    now,            \* datetime.utcnow(), in ticks
    swept,          \* periodic_cleanup has run for the current tick
    lastCall,       \* history: time of the latest register/heartbeat, -1 if none
    unregAfter,     \* history: an unregister came after the latest register/heartbeat
    sweptStale,     \* history: a cleanup ran while the latest call was older than the threshold
    reg,            \* per request, the register_peer call in flight
    revived,        \* history: what had made the row inactive when the latest register/heartbeat came
    tlast,          \* the tracker's latest response
    \* ---- node ----
    is_running,     \* P2PNode.is_running
    connected_peers,\* P2PNode.connected_peers: key -> connection, NoChan if absent
    http_client,    \* P2PNode.http_client: "none", "open", "closed"
    server_task,    \* P2PNode.server_task: "none", "starting", "listening", "failed"
    heartbeat_task, \* P2PNode.heartbeat_task: "none", "sleeping", "finished", "cancelled"
    chan,           \* the connections and the position of the task that serves each
    obs,            \* per connection, the callbacks its tasks invoked
    written,        \* per connection, the message frames the node wrote
    nsent,          \* per connection, the frames the remote peer wrote
    startPc,        \* position of start(): "new", "registering", "returned"
    stopPc,         \* position of stop(): "idle", "unregister", "wait_closed", "aclose"
    dc,             \* the disconnect_from_peer call in flight
    bc,             \* the broadcast_message call in flight
    last            \* the latest return of a node operation

tvars == <<db, now, swept, lastCall, unregAfter, sweptStale, revived, tlast, reg>>

nvars == <<is_running, connected_peers, http_client, server_task, heartbeat_task,
           chan, obs, written, nsent, startPc, stopPc, dc, bc, last>>

vars == <<db, now, swept, lastCall, unregAfter, sweptStale, revived, tlast, reg,
          is_running, connected_peers, http_client, server_task, heartbeat_task,
          chan, obs, written, nsent, startPc, stopPc, dc, bc, last>>

(* ------------------------------ tracker -------------------------------- *)
\* no row for the username
NoRow == [known |-> FALSE, host |-> "", port |-> 0, is_active |-> FALSE, last_heartbeat |-> 0]

\* class Peer: a row of the table (id and created_at play no part)
Peer(h, p, a, t) == [known |-> TRUE, host |-> h, port |-> p, is_active |-> a, last_heartbeat |-> t]

\* register_peer leaving the is_active flag of an existing row as it is
register_peer_keeps_flag(d, u, h, p, t) ==
    IF d[u].known
    THEN [d EXCEPT ![u].host = h, ![u].port = p, ![u].last_heartbeat = t]
    ELSE [d EXCEPT ![u] = Peer(h, p, TRUE, t)]

\* POST /register: update the row of the username or insert a new one
register_peer(d, u, h, p, t) ==
    IF d[u].known
    THEN [d EXCEPT ![u].host = h, ![u].port = p, ![u].is_active = TRUE, ![u].last_heartbeat = t]
    ELSE [d EXCEPT ![u] = Peer(h, p, TRUE, t)]

\* heartbeat leaving the is_active flag as it is
heartbeat_keeps_flag(d, u, t) ==
    [d EXCEPT ![u].last_heartbeat = t]

\* POST /heartbeat on a known username
heartbeat(d, u, t) ==
    [d EXCEPT ![u].last_heartbeat = t, ![u].is_active = TRUE]

\* unregister_peer deleting the row
unregister_peer_deleting(d, u) ==
    [d EXCEPT ![u] = NoRow]

\* DELETE /unregister/{username} on a known username
unregister_peer(d, u) ==
    [d EXCEPT ![u].is_active = FALSE]

\* inactive_peers with the cut-off one tick late
inactive_peers_late(d, t) ==
    {u \in DOMAIN d : d[u].known /\ d[u].is_active /\ d[u].last_heartbeat < t - threshold - 1}

\* inactive_peers with the cut-off one tick early: <= for <
inactive_peers_early(d, t) ==
    {u \in DOMAIN d : d[u].known /\ d[u].is_active /\ d[u].last_heartbeat <= t - threshold}

\* the rows cleanup_inactive_peers selects
inactive_peers(d, t) ==
    {u \in DOMAIN d : d[u].known /\ d[u].is_active /\ d[u].last_heartbeat < t - threshold}

\* cleanup_inactive_peers flipping the flag of every row older than the threshold
cleanup_inactive_peers_toggling(d, t) ==
    [u \in DOMAIN d |->
        IF d[u].known /\ d[u].last_heartbeat < t - threshold
        THEN [d[u] EXCEPT !.is_active = ~@]
        ELSE d[u]]

\* cleanup_inactive_peers: mark the selected rows inactive
cleanup_inactive_peers(d, t) ==
    [u \in DOMAIN d |-> IF u \in inactive_peers(d, t) THEN [d[u] EXCEPT !.is_active = FALSE] ELSE d[u]]

\* GET /peers: the usernames of the rows with is_active
get_active_peers(d) ==
    {u \in DOMAIN d : d[u].known /\ d[u].is_active}

\* what made the row of u inactive, "no" when it is active or missing
InactiveBy(u) ==
    IF ~db[u].known \/ db[u].is_active THEN "no"
    ELSE IF unregAfter[u] THEN "unregistered" ELSE "swept"

\* no register_peer call in flight for a request
NoRequest == [pc |-> "idle", username |-> Self, host |-> "", port |-> 0, found |-> FALSE]

TrackerInit ==
    /\ db = [u \in Usernames |-> NoRow]
    /\ now = 0
    /\ swept = FALSE
    /\ lastCall = [u \in Usernames |-> -1]
    /\ unregAfter = [u \in Usernames |-> FALSE]
    /\ sweptStale = [u \in Usernames |-> FALSE]
    /\ revived = [u \in Usernames |-> "no"]
    /\ reg = [r \in Reqs |-> NoRequest]
    /\ tlast = [op |-> "none", username |-> Self, status |-> 200, count |-> 0]

\* register_peer commits and answers 200
registered(u, h, p) ==
    /\ db' = register_peer(db, u, h, p, now)
    /\ lastCall' = [lastCall EXCEPT ![u] = now]
    /\ unregAfter' = [unregAfter EXCEPT ![u] = FALSE]
    /\ sweptStale' = [sweptStale EXCEPT ![u] = FALSE]
    /\ revived' = [revived EXCEPT ![u] = InactiveBy(u)]
    /\ tlast' = [op |-> "register", username |-> u, status |-> 200, count |-> 0]

\* the tracker serves POST /register, no other request in between
post_register(u, h, p) ==
    /\ registered(u, h, p)
    /\ UNCHANGED <<now, swept, reg>>

\* register_peer, up to the result of its select: the row of the username, or None
register_select(r, u, h, p) ==
    /\ reg[r].pc = "idle"
    /\ reg' = [reg EXCEPT ![r] = [pc |-> "selected", username |-> u, host |-> h, port |-> p,
                                  found |-> db[u].known]]
    /\ UNCHANGED <<db, now, swept, lastCall, unregAfter, sweptStale, revived, tlast>>

\* register_peer, from the result of its select through the commit: the row
\* found is updated; a new row is inserted, which the unique index on username
\* rejects (IntegrityError, status 500) when another request has inserted one
register_commit(r) ==
    /\ reg[r].pc = "selected"
    /\ IF ~reg[r].found /\ db[reg[r].username].known
       THEN /\ tlast' = [op |-> "register", username |-> reg[r].username, status |-> 500,
                         count |-> 0]
            /\ UNCHANGED <<db, lastCall, unregAfter, sweptStale, revived>>
       ELSE registered(reg[r].username, reg[r].host, reg[r].port)
    /\ reg' = [reg EXCEPT ![r] = NoRequest]
    /\ UNCHANGED <<now, swept>>

\* the tracker serves POST /heartbeat
post_heartbeat(u) ==
    /\ IF db[u].known
       THEN /\ db' = heartbeat(db, u, now)
            /\ lastCall' = [lastCall EXCEPT ![u] = now]
            /\ unregAfter' = [unregAfter EXCEPT ![u] = FALSE]
            /\ sweptStale' = [sweptStale EXCEPT ![u] = FALSE]
            /\ revived' = [revived EXCEPT ![u] = InactiveBy(u)]
            /\ tlast' = [op |-> "heartbeat", username |-> u, status |-> 200, count |-> 0]
       ELSE /\ tlast' = [op |-> "heartbeat", username |-> u, status |-> 404, count |-> 0]
            /\ UNCHANGED <<db, lastCall, unregAfter, sweptStale, revived>>
    /\ UNCHANGED <<now, swept, reg>>

\* the tracker serves DELETE /unregister/{username}
delete_unregister(u) ==
    /\ IF db[u].known
       THEN /\ db' = unregister_peer(db, u)
            /\ unregAfter' = [unregAfter EXCEPT ![u] = TRUE]
            /\ tlast' = [op |-> "unregister", username |-> u, status |-> 200, count |-> 0]
       ELSE /\ tlast' = [op |-> "unregister", username |-> u, status |-> 404, count |-> 0]
            /\ UNCHANGED <<db, unregAfter>>
    /\ UNCHANGED <<now, swept, lastCall, sweptStale, revived, reg>>

\* periodic_cleanup wakes up from its sleep and runs cleanup_inactive_peers
periodic_cleanup ==
    /\ now > 0
    /\ ~swept
    /\ db' = cleanup_inactive_peers(db, now)
    /\ sweptStale' = [u \in Usernames |->
                        sweptStale[u] \/ (lastCall[u] >= 0 /\ now - lastCall[u] > threshold)]
    /\ swept' = TRUE
    /\ tlast' = [op |-> "cleanup", username |-> Self, status |-> 200,
                 count |-> Cardinality(inactive_peers(db, now))]
    /\ UNCHANGED <<now, lastCall, unregAfter, revived, reg>>

\* one cleanup period passes; the cleanup of the current period has run
tick ==
    /\ now < MaxTime
    /\ now = 0 \/ swept
    /\ now' = now + 1
    /\ swept' = FALSE
    /\ UNCHANGED <<db, lastCall, unregAfter, sweptStale, revived, tlast, reg>>

(* ------------------------------- node ---------------------------------- *)
\* the value of connected_peers.get(key) when the key is absent
NoChan == 0

\* a protocol frame: one JSON object, or bytes that do not decode
Frame(t, u, c) == [type |-> t, username |-> u, content |-> c]
\* {'type': 'handshake', 'username': u}; u = NoName when the field is missing
HS(u) == Frame("handshake", u, 0)
\* {'type': 'handshake_ack', 'username': u}
ACK(u) == Frame("handshake_ack", u, 0)
\* {'type': 'message', 'content': c, 'timestamp': ...}
MSG(c) == Frame("message", NoName, c)
\* bytes that are not JSON
BAD == Frame("undecodable", NoName, 0)

\* json.loads(data.decode()) succeeds: data is exactly one JSON object.
\* The empty string and two objects run together ("Extra data") raise.
json_loads_ok(data) == Len(data) = 1 /\ data[1].type # "undecodable"

\* an unused connection identifier
FreeChan == [dir |-> "none", key |-> NoName, pc |-> "free", hs |-> "pending",
             wclosed |-> FALSE, rclosed |-> FALSE, inbox |-> <<>>]

\* no callback invoked yet
NoEvents == [connected |-> 0, disconnected |-> 0, messages |-> <<>>]

\* no disconnect_from_peer call in flight
NoDisconnect == [active |-> FALSE, peer |-> NoName, ch |-> NoChan]

\* no broadcast_message call in flight
NoBroadcast == [active |-> FALSE, snap |-> {}, todo |-> {}, called |-> {},
                failed |-> {}, wrote |-> {}, wfailed |-> {}, result |-> FALSE]

\* P2PNode.__init__
NodeInit ==
    /\ is_running = FALSE
    /\ connected_peers = [k \in Keys |-> NoChan]
    /\ http_client = "none"
    /\ server_task = "none"
    /\ heartbeat_task = "none"
    /\ chan = [c \in Chans |-> FreeChan]
    /\ obs = [c \in Chans |-> NoEvents]
    /\ written = [c \in Chans |-> 0]
    /\ nsent = [c \in Chans |-> 0]
    /\ startPc = "new"
    /\ stopPc = "idle"
    /\ dc = NoDisconnect
    /\ bc = NoBroadcast
    /\ last = [op |-> "none", ok |-> TRUE]

\* the tracker as the node finds it: the remote peers are registered
Init ==
    /\ NodeInit
    /\ db = [u \in Usernames |-> IF u \in Users THEN Peer("10.0.0.2", 5000, TRUE, 0) ELSE NoRow]
    /\ now = 0
    /\ swept = FALSE
    /\ lastCall = [u \in Usernames |-> IF u \in Users THEN 0 ELSE -1]
    /\ unregAfter = [u \in Usernames |-> FALSE]
    /\ sweptStale = [u \in Usernames |-> FALSE]
    /\ revived = [u \in Usernames |-> "no"]
    /\ reg = [r \in Reqs |-> NoRequest]
    /\ tlast = [op |-> "none", username |-> Self, status |-> 200, count |-> 0]

\* the keys of connected_peers
PeerKeys == {k \in Keys : connected_peers[k] # NoChan}

\* the connection identifiers in use
Used == {c \in Chans : chan[c].pc # "free"}

\* reader.read(n) can return: bytes have arrived, or end of stream was fed
\* (the remote closed, or the local transport was closed)
ReadReady(c) == chan[c].inbox # <<>> \/ chan[c].rclosed \/ chan[c].wclosed

\* the outcomes of writer.write + await writer.drain(): TRUE = written.
\* A closed local transport raises; a connection the remote has closed may raise.
DrainOutcomes(c) ==
    {ok \in BOOLEAN : (ok => ~chan[c].wclosed) /\ (~ok => (chan[c].wclosed \/ chan[c].rclosed))}

\* finally-block of _listen_peer_messages: the table after it
TableAfterListen(c) == [connected_peers EXCEPT ![chan[c].key] = NoChan]

\* finally-block of _listen_peer_messages: the callbacks after it
ObsAfterListen(c, o) ==
    IF connected_peers[chan[c].key] # NoChan
    THEN [o EXCEPT ![c].disconnected = @ + 1]
    ELSE o

\* the task serving connection c ends: _handle_peer_connection closes the writer
\* in its finally-block, the task connect_to_peer created leaves it open; the
\* bytes nobody read are never read
ChanAfterTask(c, ch) ==
    [ch EXCEPT ![c].pc = "done",
               ![c].inbox = <<>>,
               ![c].wclosed = IF ch[c].dir = "in" THEN TRUE ELSE @]

\* the first frame on an inbound connection: a handshake, with or without
\* username, a frame of another type, or bytes that do not decode
FirstFrames == {HS(u) : u \in Keys} \cup {ACK(Self), BAD}

\* the frames a remote peer may write next on connection c: on an outbound
\* connection an answer to the handshake first, messages afterwards
PeerFrames(c) ==
    IF nsent[c] > 0 THEN {MSG(nsent[c] + 1)}
    ELSE {ACK(chan[c].key), HS(chan[c].key), BAD}

\* asyncio.start_server binds the port, or fails (port in use)
ServerBind(ok) ==
    /\ server_task = "starting"
    /\ server_task' = IF ok THEN "listening" ELSE "failed"
    /\ UNCHANGED <<is_running, connected_peers, http_client, heartbeat_task, chan, obs,
                   written, nsent, startPc, stopPc, dc, bc, last>>
    /\ UNCHANGED tvars

\* a remote peer opens a TCP connection and writes its first frame f; the
\* server starts _handle_peer_connection
Accept(f) ==
    /\ server_task = "listening"
    /\ \E c \in Chans :
         /\ chan[c].pc = "free"
         /\ \A d \in Chans : d < c => chan[d].pc # "free"
         /\ chan' = [chan EXCEPT ![c] = [FreeChan EXCEPT !.dir = "in", !.pc = "hs_read",
                                                        !.inbox = <<f>>]]
         /\ nsent' = [nsent EXCEPT ![c] = 1]
    /\ UNCHANGED <<is_running, connected_peers, http_client, server_task, heartbeat_task, obs,
                   written, startPc, stopPc, dc, bc, last>>
    /\ UNCHANGED tvars

\* the remote peer writes a frame
PeerWrites(c, f) ==
    /\ chan[c].pc \notin {"free", "done"}
    /\ ~chan[c].rclosed /\ ~chan[c].wclosed
    /\ Len(chan[c].inbox) < MaxInbox
    /\ nsent[c] < MaxPeerFrames
    /\ f \in PeerFrames(c)
    /\ chan' = [chan EXCEPT ![c].inbox = Append(@, f)]
    /\ nsent' = [nsent EXCEPT ![c] = @ + 1]
    /\ UNCHANGED <<is_running, connected_peers, http_client, server_task, heartbeat_task, obs,
                   written, startPc, stopPc, dc, bc, last>>
    /\ UNCHANGED tvars

\* the remote peer closes its socket
PeerCloses(c) ==
    /\ chan[c].pc \notin {"free", "done"}
    /\ ~chan[c].rclosed
    /\ chan' = [chan EXCEPT ![c].rclosed = TRUE]
    /\ UNCHANGED <<is_running, connected_peers, http_client, server_task, heartbeat_task, obs,
                   written, nsent, startPc, stopPc, dc, bc, last>>
    /\ UNCHANGED tvars

\* _handle_peer_connection, from reader.read(1024) to await writer.drain():
\* data is whatever has arrived, k frames run together
_handle_peer_connection(c, k, cb_ok) ==
    /\ chan[c].pc = "hs_read"
    /\ ReadReady(c)
    /\ k \in 0 .. Len(chan[c].inbox)
    /\ (k = 0) = (chan[c].inbox = <<>>)
    /\ LET data == SubSeq(chan[c].inbox, 1, k)
           rest == SubSeq(chan[c].inbox, k + 1, Len(chan[c].inbox))
           handshake == data[1]
       IN  IF json_loads_ok(data) /\ handshake.type = "handshake"
           THEN LET peer_username == handshake.username
                    stored == [chan EXCEPT ![c].inbox = rest, ![c].key = peer_username,
                                           ![c].hs = "ok"]
                IN  /\ connected_peers' = [connected_peers EXCEPT ![peer_username] = c]
                    /\ obs' = [obs EXCEPT ![c].connected = @ + 1]
                    /\ chan' = IF cb_ok
                               THEN [stored EXCEPT ![c].pc = "ack_drain"]
                               ELSE ChanAfterTask(c, stored)
           ELSE /\ chan' = ChanAfterTask(c, [chan EXCEPT ![c].inbox = rest, ![c].hs = "failed"])
                /\ cb_ok
                /\ UNCHANGED <<connected_peers, obs>>
    /\ UNCHANGED <<is_running, http_client, server_task, heartbeat_task,
                   written, nsent, startPc, stopPc, dc, bc, last>>
    /\ UNCHANGED tvars

\* _handle_peer_connection resumes from await writer.drain() and calls
\* _listen_peer_messages, which tests is_running before its first read
AckDrain(c, ok) ==
    /\ chan[c].pc = "ack_drain"
    /\ ok \in DrainOutcomes(c)
    /\ IF ok /\ is_running
       THEN /\ chan' = [chan EXCEPT ![c].pc = "listen"]
            /\ UNCHANGED <<connected_peers, obs>>
       ELSE IF ok
       THEN /\ connected_peers' = TableAfterListen(c)
            /\ obs' = ObsAfterListen(c, obs)
            /\ chan' = ChanAfterTask(c, chan)
       ELSE /\ chan' = ChanAfterTask(c, chan)
            /\ UNCHANGED <<connected_peers, obs>>
    /\ UNCHANGED <<is_running, http_client, server_task, heartbeat_task,
                   written, nsent, startPc, stopPc, dc, bc, last>>
    /\ UNCHANGED tvars

\* on_message_callback recording the newest message first
on_message_callback_newest_first(o, c, content) ==
    [o EXCEPT ![c].messages = <<content>> \o @]

\* await self.on_message_callback({'from': ..., 'content': ...}): the observer
\* receives the message after those it has received
on_message_callback(o, c, content) ==
    [o EXCEPT ![c].messages = Append(@, content)]

\* _listen_peer_messages: one reader.read(4096) and what follows it, up to the
\* next read or through the finally-block
_listen_peer_messages(c, k, cb_ok) ==
    /\ chan[c].pc = "listen"
    /\ ReadReady(c)
    /\ k \in 0 .. Len(chan[c].inbox)
    /\ (k = 0) = (chan[c].inbox = <<>>)
    /\ LET data == SubSeq(chan[c].inbox, 1, k)
           rest == SubSeq(chan[c].inbox, k + 1, Len(chan[c].inbox))
           message == data[1]
           read == [chan EXCEPT ![c].inbox = rest]
       IN  IF k > 0 /\ json_loads_ok(data)
           THEN LET delivered == on_message_callback(obs, c, message.content)
                IN  IF cb_ok /\ is_running
                    THEN /\ obs' = delivered
                         /\ chan' = read
                         /\ UNCHANGED connected_peers
                    ELSE /\ obs' = ObsAfterListen(c, delivered)
                         /\ connected_peers' = TableAfterListen(c)
                         /\ chan' = ChanAfterTask(c, read)
           ELSE /\ cb_ok
                /\ obs' = ObsAfterListen(c, obs)
                /\ connected_peers' = TableAfterListen(c)
                /\ chan' = ChanAfterTask(c, read)
    /\ UNCHANGED <<is_running, http_client, server_task, heartbeat_task,
                   written, nsent, startPc, stopPc, dc, bc, last>>
    /\ UNCHANGED tvars

\* get_peers_from_tracker: the active peers but the node itself; [] on any
\* failure (no client yet, client closed, no response, status other than 200)
get_peers_from_tracker(resp_ok) ==
    IF http_client = "open" /\ resp_ok THEN get_active_peers(db) \ {Self} ELSE {}

\* connect_to_peer, from the call to await reader.read(1024): resolve the
\* address, dial and write the handshake
connect_to_peer(t, resp_ok, dial_ok) ==
    /\ IF t \in get_peers_from_tracker(resp_ok) /\ dial_ok
       THEN /\ \E c \in Chans :
                 /\ chan[c].pc = "free"
                 /\ \A d \in Chans : d < c => chan[d].pc # "free"
                 /\ chan' = [chan EXCEPT ![c] = [FreeChan EXCEPT !.dir = "out", !.key = t,
                                                                !.pc = "ack_read"]]
            /\ UNCHANGED last
       ELSE /\ last' = [op |-> "connect_to_peer", ok |-> FALSE]
            /\ UNCHANGED chan
    /\ UNCHANGED <<is_running, connected_peers, http_client, server_task, heartbeat_task, obs,
                   written, nsent, startPc, stopPc, dc, bc>>
    /\ UNCHANGED tvars

\* connect_to_peer, from the return of reader.read(1024) to its return
connect_to_peer_ack(c, k, cb_ok) ==
    /\ chan[c].pc = "ack_read"
    /\ ReadReady(c)
    /\ k \in 0 .. Len(chan[c].inbox)
    /\ (k = 0) = (chan[c].inbox = <<>>)
    /\ LET data == SubSeq(chan[c].inbox, 1, k)
           rest == SubSeq(chan[c].inbox, k + 1, Len(chan[c].inbox))
           response == data[1]
           peer_username == chan[c].key
           read == [chan EXCEPT ![c].inbox = rest]
       IN  IF json_loads_ok(data) /\ response.type = "handshake_ack"
           THEN /\ connected_peers' = [connected_peers EXCEPT ![peer_username] = c]
                /\ obs' = [obs EXCEPT ![c].connected = @ + 1]
                /\ chan' = IF cb_ok
                           THEN [read EXCEPT ![c].pc = "spawned", ![c].hs = "ok"]
                           ELSE [read EXCEPT ![c].pc = "done", ![c].hs = "failed", ![c].inbox = <<>>]
                /\ last' = [op |-> "connect_to_peer", ok |-> cb_ok]
           ELSE /\ cb_ok
                /\ chan' = [read EXCEPT ![c].pc = "done", ![c].hs = "failed", ![c].inbox = <<>>]
                /\ last' = [op |-> "connect_to_peer", ok |-> FALSE]
                /\ UNCHANGED <<connected_peers, obs>>
    /\ UNCHANGED <<is_running, http_client, server_task, heartbeat_task,
                   written, nsent, startPc, stopPc, dc, bc>>
    /\ UNCHANGED tvars

\* the task connect_to_peer created starts _listen_peer_messages, which tests
\* is_running before its first read
ListenStart(c) ==
    /\ chan[c].pc = "spawned"
    /\ IF is_running
       THEN /\ chan' = [chan EXCEPT ![c].pc = "listen"]
            /\ UNCHANGED <<connected_peers, obs>>
       ELSE /\ connected_peers' = TableAfterListen(c)
            /\ obs' = ObsAfterListen(c, obs)
            /\ chan' = ChanAfterTask(c, chan)
    /\ UNCHANGED <<is_running, http_client, server_task, heartbeat_task,
                   written, nsent, startPc, stopPc, dc, bc, last>>
    /\ UNCHANGED tvars

\* send_message_returns reporting success for a peer that is not connected
send_message_returns_absent_ok(u) ==
    IF connected_peers[u] = NoChan THEN {TRUE} ELSE DrainOutcomes(connected_peers[u])

\* the values send_message(peer_username, content) can return
send_message_returns(u) ==
    IF connected_peers[u] = NoChan THEN {FALSE} ELSE DrainOutcomes(connected_peers[u])

\* the frames written once send_message(peer_username, content) returned ok
send_message_written(u, ok) ==
    IF connected_peers[u] # NoChan /\ ok
    THEN [written EXCEPT ![connected_peers[u]] = @ + 1]
    ELSE written

\* send_message(peer_username, content)
send_message(u, ok) ==
    /\ ok \in send_message_returns(u)
    /\ connected_peers[u] # NoChan => written[connected_peers[u]] < MaxSend
    /\ written' = send_message_written(u, ok)
    /\ last' = [op |-> "send_message", ok |-> ok]
    /\ UNCHANGED <<is_running, connected_peers, http_client, server_task, heartbeat_task, chan,
                   obs, nsent, startPc, stopPc, dc, bc>>
    /\ UNCHANGED tvars

\* broadcast_continues stopping at the first failed send
broadcast_continues_until_failure(b) == b.todo # {} /\ b.failed = {}

\* broadcast_message: the loop goes on to the next peer of the snapshot
broadcast_continues(b) == b.todo # {}

\* broadcast_message: all(results)
broadcast_result(b) == b.failed = {}

\* broadcast_message: the record of the call after send_message(u) returned ok
broadcast_sent(b, u, ok) ==
    [b EXCEPT !.todo = @ \ {u},
              !.called = @ \cup {u},
              !.failed = IF ok THEN @ ELSE @ \cup {u},
              !.wrote = IF ok THEN @ \cup {u} ELSE @,
              !.wfailed = IF ~ok /\ connected_peers[u] # NoChan THEN @ \cup {u} ELSE @]

\* broadcast_message: after a send, either suspend before the next or return
broadcast_goes_on(b) ==
    IF broadcast_continues(b)
    THEN /\ bc' = b
         /\ UNCHANGED last
    ELSE /\ bc' = [b EXCEPT !.active = FALSE, !.result = broadcast_result(b)]
         /\ last' = [op |-> "broadcast_message", ok |-> broadcast_result(b)]

\* broadcast_message(content), from the call to the first await: the check of
\* the table, the snapshot of its keys and the first send_message
broadcast_message(u, ok) ==
    /\ ~bc.active
    /\ \A k \in PeerKeys : written[connected_peers[k]] < MaxSend
    /\ IF PeerKeys = {}
       THEN /\ bc' = NoBroadcast
            /\ last' = [op |-> "broadcast_message", ok |-> FALSE]
            /\ UNCHANGED written
       ELSE /\ u \in PeerKeys
            /\ ok \in send_message_returns(u)
            /\ written' = send_message_written(u, ok)
            /\ broadcast_goes_on(broadcast_sent(
                   [NoBroadcast EXCEPT !.active = TRUE, !.snap = PeerKeys, !.todo = PeerKeys],
                   u, ok))
    /\ UNCHANGED <<is_running, connected_peers, http_client, server_task, heartbeat_task, chan,
                   obs, nsent, startPc, stopPc, dc>>
    /\ UNCHANGED tvars

\* broadcast_message resumes and calls send_message for the next peer
broadcast_next(u, ok) ==
    /\ bc.active
    /\ u \in bc.todo
    /\ ok \in send_message_returns(u)
    /\ written' = send_message_written(u, ok)
    /\ broadcast_goes_on(broadcast_sent(bc, u, ok))
    /\ UNCHANGED <<is_running, connected_peers, http_client, server_task, heartbeat_task, chan,
                   obs, nsent, startPc, stopPc, dc>>
    /\ UNCHANGED tvars

\* disconnect_from_peer(peer_username), from the call to await writer.wait_closed()
disconnect_from_peer(u) ==
    /\ ~dc.active
    /\ IF connected_peers[u] = NoChan
       THEN /\ last' = [op |-> "disconnect_from_peer", ok |-> FALSE]
            /\ UNCHANGED <<chan, dc>>
       ELSE /\ chan' = [chan EXCEPT ![connected_peers[u]].wclosed = TRUE]
            /\ dc' = [active |-> TRUE, peer |-> u, ch |-> connected_peers[u]]
            /\ UNCHANGED last
    /\ UNCHANGED <<is_running, connected_peers, http_client, server_task, heartbeat_task,
                   obs, written, nsent, startPc, stopPc, bc>>
    /\ UNCHANGED tvars

\* disconnect_from_peer resumes: del connected_peers[peer_username] (KeyError
\* when the key has gone), the callback and the return
disconnect_from_peer_closed(cb_ok) ==
    /\ dc.active
    /\ IF connected_peers[dc.peer] # NoChan
       THEN /\ connected_peers' = [connected_peers EXCEPT ![dc.peer] = NoChan]
            /\ obs' = [obs EXCEPT ![dc.ch].disconnected = @ + 1]
            /\ last' = [op |-> "disconnect_from_peer", ok |-> cb_ok]
       ELSE /\ cb_ok
            /\ last' = [op |-> "disconnect_from_peer", ok |-> FALSE]
            /\ UNCHANGED <<connected_peers, obs>>
    /\ dc' = NoDisconnect
    /\ UNCHANGED <<is_running, http_client, server_task, heartbeat_task, chan,
                   written, nsent, startPc, stopPc, bc>>
    /\ UNCHANGED tvars

\* start(), from the call to await self.register_to_tracker()
start ==
    /\ startPc = "new"
    /\ http_client' = "open"
    /\ is_running' = TRUE
    /\ server_task' = "starting"
    /\ startPc' = "registering"
    /\ UNCHANGED <<connected_peers, heartbeat_task, chan, obs, written, nsent, stopPc, dc, bc, last>>
    /\ UNCHANGED tvars

\* register_to_tracker returns to start(): True on status 200, False on any
\* other status or exception; start() then creates the heartbeat task or returns False
register_to_tracker(ok, h) ==
    /\ startPc = "registering"
    /\ startPc' = "returned"
    /\ IF ok /\ http_client = "open"
       THEN /\ post_register(Self, h, 5000)
            /\ heartbeat_task' = IF is_running THEN "sleeping" ELSE "finished"
            /\ last' = [op |-> "start", ok |-> TRUE]
       ELSE /\ ok = FALSE
            /\ last' = [op |-> "start", ok |-> FALSE]
            /\ UNCHANGED heartbeat_task
            /\ UNCHANGED tvars
    /\ UNCHANGED <<is_running, connected_peers, http_client, server_task, chan, obs, written,
                   nsent, stopPc, dc, bc>>

\* heartbeat_loop wakes from asyncio.sleep(30), posts /heartbeat and tests
\* is_running again
heartbeat_loop(ok) ==
    /\ heartbeat_task = "sleeping"
    /\ IF ok /\ http_client = "open"
       THEN post_heartbeat(Self)
       ELSE ok = FALSE /\ UNCHANGED tvars
    /\ heartbeat_task' = IF is_running THEN "sleeping" ELSE "finished"
    /\ UNCHANGED <<is_running, connected_peers, http_client, server_task, chan, obs, written,
                   nsent, startPc, stopPc, dc, bc, last>>

\* the part of the node that stop() changes
StopState == [pc |-> stopPc, chan |-> chan, table |-> connected_peers, http |-> http_client,
              hb |-> heartbeat_task, returned |-> FALSE]

\* stop(): heartbeat_task.cancel() and the return
stop_finish(s) ==
    [s EXCEPT !.pc = "idle",
              !.hb = IF s.hb = "sleeping" THEN "cancelled" ELSE s.hb,
              !.returned = TRUE]

\* stop(): connected_peers.clear() and await http_client.aclose(), which
\* suspends when the client is open
stop_clear(s) ==
    LET cleared == [s EXCEPT !.table = [k \in Keys |-> NoChan]]
    IN  IF s.http = "open"
        THEN [cleared EXCEPT !.http = "closed", !.pc = "aclose"]
        ELSE stop_finish(cleared)

\* stop(): writer.close() and await writer.wait_closed() for the connections
\* of the table
stop_close(s) ==
    IF \E k \in Keys : s.table[k] # NoChan
    THEN [s EXCEPT !.pc = "wait_closed",
                   !.chan = [c \in Chans |->
                               IF \E k \in Keys : s.table[k] = c
                               THEN [s.chan[c] EXCEPT !.wclosed = TRUE]
                               ELSE s.chan[c]]]
    ELSE stop_clear(s)

\* stop(): await http_client.delete(...), which suspends when the client is
\* open and raises at once when it is missing or closed
stop_unregister(s) ==
    IF s.http = "open" THEN [s EXCEPT !.pc = "unregister"] ELSE stop_close(s)

\* the node after a step of stop()
Stopped(s) ==
    /\ stopPc' = s.pc
    /\ chan' = s.chan
    /\ connected_peers' = s.table
    /\ http_client' = s.http
    /\ heartbeat_task' = s.hb
    /\ last' = IF s.returned
               THEN [op |-> "stop", ok |-> TRUE]
               ELSE last
    /\ UNCHANGED <<server_task, obs, written, nsent, startPc, dc, bc>>

\* stop(), from the call to its first suspension
stop ==
    /\ stopPc = "idle"
    /\ is_running' = FALSE
    /\ Stopped(stop_unregister(StopState))
    /\ UNCHANGED tvars

\* stop() resumes from the unregister call, whose failure it ignores
stop_unregistered(ok) ==
    /\ stopPc = "unregister"
    /\ IF ok /\ http_client = "open" THEN delete_unregister(Self) ELSE ok = FALSE /\ UNCHANGED tvars
    /\ Stopped(stop_close(StopState))
    /\ UNCHANGED is_running

\* stop() resumes from writer.wait_closed()
stop_closed ==
    /\ stopPc = "wait_closed"
    /\ Stopped(stop_clear(StopState))
    /\ UNCHANGED is_running
    /\ UNCHANGED tvars

\* stop() resumes from http_client.aclose()
stop_aclosed ==
    /\ stopPc = "aclose"
    /\ Stopped(stop_finish(StopState))
    /\ UNCHANGED is_running
    /\ UNCHANGED tvars

\* the node is started and its server comes up
Lifecycle ==
    \/ start
    \/ \E ok \in BOOLEAN, h \in {"10.0.0.1"} : register_to_tracker(ok, h)
    \/ \E ok \in BOOLEAN : ServerBind(ok)

\* what the remote peers do
Remote ==
    \/ \E f \in FirstFrames : Accept(f)
    \/ \E c \in Chans : \E f \in PeerFrames(c) : PeerWrites(c, f)
    \/ \E c \in Chans : PeerCloses(c)

\* the tasks that serve the inbound connections
Serving ==
    \/ \E c \in Chans, k \in 0 .. MaxInbox, cb_ok \in BOOLEAN : _handle_peer_connection(c, k, cb_ok)
    \/ \E c \in Chans, ok \in BOOLEAN : AckDrain(c, ok)
    \/ \E c \in Chans, k \in 0 .. MaxInbox, cb_ok \in BOOLEAN : _listen_peer_messages(c, k, cb_ok)

\* connect_to_peer and the task it creates
Dialling ==
    \/ \E t \in Targets, resp_ok \in BOOLEAN, dial_ok \in BOOLEAN : connect_to_peer(t, resp_ok, dial_ok)
    \/ \E c \in Chans, k \in 0 .. MaxInbox, cb_ok \in BOOLEAN : connect_to_peer_ack(c, k, cb_ok)
    \/ \E c \in Chans : ListenStart(c)

\* disconnect_from_peer
Disconnecting ==
    \/ \E u \in Keys : disconnect_from_peer(u)
    \/ \E cb_ok \in BOOLEAN : disconnect_from_peer_closed(cb_ok)

\* the calls that send
Sending ==
    \/ \E u \in Keys, ok \in BOOLEAN : send_message(u, ok)
    \/ \E u \in Keys, ok \in BOOLEAN : broadcast_message(u, ok)
    \/ \E u \in Keys, ok \in BOOLEAN : broadcast_next(u, ok)

\* stop()
Stopping ==
    \/ stop
    \/ \E ok \in BOOLEAN : stop_unregistered(ok)
    \/ stop_closed
    \/ stop_aclosed

\* the heartbeat task
Beating == \E ok \in BOOLEAN : heartbeat_loop(ok)

\* no more than n connections are in use after the step
AtMost(n) == \A c \in Chans : c > n => chan'[c].pc = "free"

\* Spec: connections are opened by both sides and served
Next ==
    \/ Lifecycle
    \/ Remote
    \/ Serving
    \/ Dialling

Spec == Init /\ [][Next]_vars

\* SendSpec: remote peers connect and close, the node sends to them
SendNext ==
    \/ Lifecycle
    \/ \E f \in FirstFrames : Accept(f)
    \/ \E c \in Chans : PeerCloses(c)
    \/ Serving
    \/ Sending

SendSpec == Init /\ [][SendNext]_vars

\* StopSpec: the node is started and stopped while StopChans connections are
\* opened and served and the heartbeat task runs
StopNext ==
    \/ Lifecycle
    \/ (\E f \in FirstFrames : Accept(f)) /\ AtMost(StopChans)
    \/ \E c \in Chans : \E f \in PeerFrames(c) : PeerWrites(c, f)
    \/ \E c \in Chans : PeerCloses(c)
    \/ Serving
    \/ (\E t \in Targets, resp_ok \in BOOLEAN, dial_ok \in BOOLEAN :
            connect_to_peer(t, resp_ok, dial_ok)) /\ AtMost(StopChans)
    \/ \E c \in Chans, k \in 0 .. MaxInbox, cb_ok \in BOOLEAN : connect_to_peer_ack(c, k, cb_ok)
    \/ \E c \in Chans : ListenStart(c)
    \/ Stopping
    \/ Beating

StopSpec == Init /\ [][StopNext]_vars

\* DisconnectSpec: StopChans connections are opened by remote peers and
\* served while the node disconnects from peers
DisconnectNext ==
    \/ Lifecycle
    \/ (\E f \in FirstFrames : Accept(f)) /\ AtMost(StopChans)
    \/ \E c \in Chans : \E f \in PeerFrames(c) : PeerWrites(c, f)
    \/ \E c \in Chans : PeerCloses(c)
    \/ Serving
    \/ Disconnecting

DisconnectSpec == Init /\ [][DisconnectNext]_vars

\* a client calls POST /register
Register(u, h, p) == post_register(u, h, p) /\ UNCHANGED nvars

\* a client calls POST /heartbeat
Heartbeat(u) == post_heartbeat(u) /\ UNCHANGED nvars

\* a client calls DELETE /unregister/{username}
Unregister(u) == delete_unregister(u) /\ UNCHANGED nvars

\* the cleanup task runs
Sweep == periodic_cleanup /\ UNCHANGED nvars

\* time passes
Tick == tick /\ UNCHANGED nvars

\* the tracker with no client yet, next to a node that is never started
TrackerStart == TrackerInit /\ NodeInit

TrackerNext ==
    \/ \E u \in Clients, h \in Hosts, p \in Ports : Register(u, h, p)
    \/ \E u \in Clients : Heartbeat(u)
    \/ \E u \in Clients : Unregister(u)
    \/ Sweep
    \/ Tick

\* TrackerSpec: the tracker serves its clients while time passes
TrackerSpec == TrackerStart /\ [][TrackerNext]_vars

\* register_peer reads the row of the username for a request
RegisterSelect(r, u, h, p) == register_select(r, u, h, p) /\ UNCHANGED nvars

\* register_peer commits for a request
RegisterCommit(r) == register_commit(r) /\ UNCHANGED nvars

\* RegisterSpec: the tracker serves POST /register requests concurrently,
\* and DELETE /unregister
RegisterNext ==
    \/ \E r \in Reqs, u \in Clients, h \in Hosts, p \in Ports : RegisterSelect(r, u, h, p)
    \/ \E r \in Reqs : RegisterCommit(r)
    \/ \E u \in Clients : Unregister(u)

RegisterSpec == TrackerStart /\ [][RegisterNext]_vars

(* ------------------------------- claims -------------------------------- *)

\* the latest register/heartbeat of u is no older than the threshold
WithinThreshold(u) == lastCall[u] >= 0 /\ now - lastCall[u] <= threshold

\* C3 as stated: GET /peers lists a username if and only if its latest
\* register/heartbeat call is within the threshold of the current time and no
\* unregister came after that call.
C3_ListedIffRecent ==
    \A u \in Clients :
        u \in get_active_peers(db) <=> (WithinThreshold(u) /\ ~unregAfter[u])

\* C3 as amended: GET /peers lists a username if and only if it registered, no
\* unregister came after its latest register/heartbeat call and no cleanup has
\* run while that call was older than the threshold; a call within the
\* threshold has seen no such cleanup, so it is listed unless unregistered,
\* and a stale username stays listed until the next periodic cleanup.
C3_ListedUntilSwept ==
    \A u \in Clients :
        /\ u \in get_active_peers(db) <=> (lastCall[u] >= 0 /\ ~unregAfter[u] /\ ~sweptStale[u])
        /\ sweptStale[u] => ~WithinThreshold(u)

\* C3 witness: a username whose latest call is older than the threshold is
\* still listed, the cleanup of this period not having run yet
C3_StaleListed ==
    \E u \in Clients :
        /\ u \in get_active_peers(db)
        /\ ~WithinThreshold(u)
        /\ ~swept

\* a connection whose handshake completed and that neither side has closed,
\* with its task still serving it
Live(c) ==
    /\ chan[c].hs = "ok"
    /\ chan[c].pc \in {"ack_drain", "spawned", "listen"}
    /\ ~chan[c].wclosed
    /\ ~chan[c].rclosed

\* C1 as stated: there are never two live connections for one username; the
\* handshake that completes later replaces the entry and the earlier channel
\* is closed.
C1_OneLiveConnection ==
    \A c, d \in Chans :
        (Live(c) /\ Live(d) /\ chan[c].key = chan[d].key) => c = d

\* C2 as stated, for the connections whose receive loop has ended: a
\* connection connect_to_peer established and the remote peer closed has had
\* exactly one peer_disconnected callback.
C2_OneDisconnectPerConnection ==
    \A c \in Chans :
        (chan[c].dir = "out" /\ chan[c].hs = "ok" /\ chan[c].rclosed /\ chan[c].pc = "done")
            => obs[c].disconnected = 1

\* the contents of the first k frames waiting on connection c
Contents(c, k) == [i \in 1 .. k |-> chan[c].inbox[i].content]

\* C5 as stated: every message frame the remote peer sent and the receive
\* loop takes from the stream produces exactly one onMessage callback with its
\* content, also when several frames were sent back to back; no callback fails.
C5_OneCallbackPerFrame ==
    [][\A c \in Chans, k \in 1 .. MaxInbox :
          _listen_peer_messages(c, k, TRUE)
              => obs'[c].messages = obs[c].messages \o Contents(c, k)]_vars

\* a frame that is a handshake with a username
ValidHandshake(f) == f.type = "handshake" /\ f.username # NoName

\* C7 as stated: when the first frame on an accepted connection is not a
\* valid handshake (it does not decode, its type is not "handshake" or it has
\* no username), the handler ends with no entry created under any key and no
\* callback invoked.
C7_InvalidHandshakeNoEffect ==
    [][\A c \in Chans :
          (/\ chan[c].pc = "hs_read"
           /\ chan'[c].pc # "hs_read"
           /\ ~(chan[c].inbox # <<>> /\ ValidHandshake(chan[c].inbox[1])))
              => (connected_peers' = connected_peers /\ obs' = obs)]_vars

\* C8 as stated: whenever connect_to_peer returned failure after it dialled,
\* the table holds no entry for the target that this call put there.
C8_FailedConnectLeavesNoEntry ==
    \A c \in Chans :
        (chan[c].dir = "out" /\ chan[c].hs = "failed")
            => connected_peers[chan[c].key] # c

\* C9 as stated: after start() returned failure the node is not marked
\* running and neither its listener task nor its heartbeat task runs.
C9_FailedStartReleases ==
    last = [op |-> "start", ok |-> FALSE]
        => /\ ~is_running
           /\ server_task \notin {"starting", "listening"}
           /\ heartbeat_task # "sleeping"

\* a step in which stop() returns
StopReturns ==
    /\ stopPc' = "idle"
    /\ \/ stop
       \/ \E ok \in BOOLEAN : stop_unregistered(ok)
       \/ stop_closed
       \/ stop_aclosed

\* C10 as stated: whenever stop() returns, the Connection Table is empty.
C10_StopLeavesTableEmpty ==
    [][StopReturns => \A k \in Keys : connected_peers'[k] = NoChan]_vars

\* the record of a broadcast_message call that has returned
BroadcastDone == ~bc.active /\ bc.snap # {}

\* C4 as stated: a broadcast over N >= 1 peers attempts a write to each of
\* them and returns failure if and only if at least one write failed.
C4_FailsIffWriteFails ==
    BroadcastDone
        => /\ bc.wrote \cup bc.wfailed = bc.snap
           /\ ~bc.result <=> bc.wfailed # {}

\* C4 as amended: a broadcast over N >= 1 peers calls send_message for each
\* peer of the snapshot taken at call time, whatever fails, and returns
\* failure if and only if at least one of these sends fails; a send fails when
\* its write fails or when the peer has left the table before its turn, and
\* then nothing is written to that peer; with an empty table the call fails
\* without writing anything.
C4_FailsIffSendFails ==
    /\ [](/\ BroadcastDone
              => /\ bc.called = bc.snap
                 /\ bc.result <=> bc.failed = {}
                 /\ bc.wrote = bc.snap \ bc.failed
                 /\ bc.wfailed \subseteq bc.failed
          /\ (last.op = "broadcast_message" /\ ~bc.active) => last.ok = bc.result
          /\ (~bc.active /\ bc.snap = {}) => ~bc.result)
    /\ [][\A u \in Keys, ok \in BOOLEAN :
            (broadcast_message(u, ok) /\ PeerKeys = {})
                => (written' = written /\ last' = [op |-> "broadcast_message", ok |-> FALSE])]_vars

\* C4 witness: a broadcast over two peers has returned; one write failed and
\* the other peer was still written to
C4_PartialFailure ==
    /\ BroadcastDone
    /\ Cardinality(bc.snap) = 2
    /\ Cardinality(bc.wfailed) = 1
    /\ Cardinality(bc.wrote) = 1
    /\ last = [op |-> "broadcast_message", ok |-> FALSE]

\* C6: send_message for a peer that has no entry in the Connection Table
\* returns failure, writes nothing to any channel and leaves the Connection
\* Table as it was.
C6_SendToAbsentPeer ==
    [][\A u \in Keys :
          (connected_peers[u] = NoChan /\ \E ok \in BOOLEAN : send_message(u, ok))
              => /\ last' = [op |-> "send_message", ok |-> FALSE]
                 /\ written' = written
                 /\ chan' = chan
                 /\ connected_peers' = connected_peers]_vars

\* C6 witness: send_message returned failure while a peer is connected and no
\* connection was ever closed by either side, so no write can have failed
C6_NotConnectedFailure ==
    /\ last = [op |-> "send_message", ok |-> FALSE]
    /\ PeerKeys # {}
    /\ \A c \in Chans : ~chan[c].wclosed /\ ~chan[c].rclosed

\* start() and stop() have both returned, stop() last
StopHasReturned == startPc = "returned" /\ stopPc = "idle" /\ ~is_running

\* C11 as stated: after stop() has returned the listening socket is released,
\* so the server task no longer listens, and the heartbeat loop and every
\* receive loop have ended.
C11_StopEndsActivity ==
    StopHasReturned
        => /\ server_task # "listening"
           /\ heartbeat_task # "sleeping"
           /\ \A c \in Chans : chan[c].pc # "listen"

\* C12: a cleanup that runs when a peer's latest register/heartbeat is older
\* than the threshold takes the peer off GET /peers, and a register of that
\* username puts it back at once, with the host and port of the call.
C12_SweptThenRegistered ==
    [][/\ Sweep => \A u \in Clients :
                       (lastCall[u] >= 0 /\ now - lastCall[u] > threshold)
                           => u \notin get_active_peers(db')
       /\ \A u \in Clients, h \in Hosts, p \in Ports :
              Register(u, h, p)
                  => /\ u \in get_active_peers(db')
                     /\ db'[u].host = h
                     /\ db'[u].port = p]_vars

\* C12 witness: a username the cleanup had made inactive has registered again
\* and is listed
C12_RegisteredAfterSweep ==
    \E u \in Clients :
        /\ tlast.op = "register" /\ tlast.username = u
        /\ revived[u] = "swept"
        /\ lastCall[u] = now
        /\ u \in get_active_peers(db)

\* C13: cleanup_inactive_peers is idempotent: run twice in succession at the
\* same time, the second run changes nothing and would return count 0; one
\* run changes only the is_active flag, and only of the rows that are active
\* with now - last_heartbeat > threshold.
C13_SweepIdempotent ==
    LET once == cleanup_inactive_peers(db, now)
        twice == cleanup_inactive_peers(once, now)
    IN  /\ twice = once
        /\ get_active_peers(twice) = get_active_peers(once)
        /\ Cardinality(inactive_peers(once, now)) = 0
        /\ \A u \in Usernames :
               once[u] = IF db[u].known /\ db[u].is_active
                              /\ now - db[u].last_heartbeat > threshold
                         THEN [db[u] EXCEPT !.is_active = FALSE]
                         ELSE db[u]

\* C13 witness: the periodic cleanup has just made a row inactive, and a
\* second run now would select nothing
C13_SweptSomething ==
    /\ tlast.op = "cleanup"
    /\ tlast.count > 0
    /\ inactive_peers(db, now) = {}

\* C14 as stated: every register call succeeds, under any interleaving with
\* other register calls, and leaves the record of its username active with the
\* host and port of one of the calls.
C14_RegisterNeverFails ==
    [][\A r \in Reqs :
          RegisterCommit(r)
              => /\ tlast'.status = 200
                 /\ reg[r].username \in get_active_peers(db')
                 /\ \E h \in Hosts, p \in Ports :
                        db'[reg[r].username].host = h /\ db'[reg[r].username].port = p]_vars

\* C15: heartbeat for a username that was never registered answers 404 and
\* leaves the store unchanged; for a known username, whatever its is_active
\* flag, it sets last_heartbeat to now and is_active to true and changes no
\* host, no port and no other row.
C15_HeartbeatKnownOrNotFound ==
    [][\A u \in Clients :
          Heartbeat(u)
              => IF db[u].known
                 THEN /\ tlast'.status = 200
                      /\ db' = [db EXCEPT ![u] = [db[u] EXCEPT !.last_heartbeat = now,
                                                               !.is_active = TRUE]]
                 ELSE /\ tlast'.status = 404
                      /\ db' = db]_vars

\* C15 witness: a heartbeat has found the row of its username inactive, after
\* a cleanup or an unregister, and made it active again
C15_HeartbeatRevived ==
    \E u \in Clients :
        /\ tlast = [op |-> "heartbeat", username |-> u, status |-> 200, count |-> 0]
        /\ revived[u] # "no"
        /\ db[u].is_active
        /\ db[u].last_heartbeat = now

\* C16: unregister answers 404 and changes nothing when the username is
\* unknown; otherwise it answers 200 and sets is_active to false, keeping the
\* row and every other row as they are; on a row already inactive it
\* succeeds and leaves the store unchanged.
C16_UnregisterKeepsRow ==
    [][\A u \in Clients :
          Unregister(u)
              => IF db[u].known
                 THEN /\ tlast'.status = 200
                      /\ db' = [db EXCEPT ![u] = [db[u] EXCEPT !.is_active = FALSE]]
                      /\ db'[u].known
                      /\ ~db[u].is_active => db' = db
                 ELSE /\ tlast'.status = 404
                      /\ db' = db]_vars

\* C16 witness: a username whose row the cleanup had already made inactive has
\* been unregistered; its row is kept, inactive, with its address, next to an
\* active row of another username
C16_UnregisteredRowKept ==
    \E u \in Clients :
        /\ tlast = [op |-> "unregister", username |-> u, status |-> 200, count |-> 0]
        /\ db[u].known /\ ~db[u].is_active /\ db[u].host \in Hosts
        /\ unregAfter[u] /\ sweptStale[u]
        /\ get_active_peers(db) # {}

\* C17 as stated: when the onMessage callback raises for a frame, the receive
\* loop of that connection keeps running and the connection stays in the
\* Connection Table.
C17_CallbackFailureKeepsLoop ==
    [][\A c \in Chans, k \in 1 .. MaxInbox :
          (/\ is_running
           /\ k <= Len(chan[c].inbox)
           /\ json_loads_ok(SubSeq(chan[c].inbox, 1, k))
           /\ _listen_peer_messages(c, k, FALSE))
              => /\ chan'[c].pc = "listen"
                 /\ connected_peers' = connected_peers]_vars

\* C18: with a cleanup every period (30 s) and a threshold of 2 minutes, a
\* username whose latest register/heartbeat is more than threshold + period
\* old is not on GET /peers, and no row is active with a last_heartbeat more
\* than threshold + period old.
C18_StalenessBounded ==
    /\ \A u \in Clients :
           (lastCall[u] >= 0 /\ now - lastCall[u] > threshold + period)
               => u \notin get_active_peers(db)
    /\ \A u \in Usernames :
           (db[u].known /\ db[u].is_active) => now - db[u].last_heartbeat <= threshold + period

\* C18 witness: a username that was never unregistered and stopped calling
\* more than threshold + period ago is off the list
C18_SweptInTime ==
    \E u \in Clients :
        /\ lastCall[u] >= 0
        /\ ~unregAfter[u]
        /\ now - lastCall[u] > threshold + period
        /\ u \notin get_active_peers(db)

\* C19 as stated: disconnect_from_peer fails and changes nothing when the
\* peer is not in the Connection Table; when the peer is in the table at the
\* time of the call, the call, however its wait for the channel to close
\* interleaves with the connection's receive loop, returns success with the
\* channel closed and the entry removed.
C19_DisconnectSucceeds ==
    [][/\ \A u \in Keys :
              (connected_peers[u] = NoChan /\ disconnect_from_peer(u))
                  => /\ last' = [op |-> "disconnect_from_peer", ok |-> FALSE]
                     /\ connected_peers' = connected_peers
                     /\ chan' = chan
                     /\ obs' = obs
       /\ disconnect_from_peer_closed(TRUE)
              => /\ last' = [op |-> "disconnect_from_peer", ok |-> TRUE]
                 /\ connected_peers'[dc.peer] = NoChan
                 /\ chan'[dc.ch].wclosed]_vars

\* C20: on one connection the onMessage callbacks come in the order in which
\* the remote peer wrote the frames; the peer numbers its frames as it
\* writes them, so the contents delivered are in increasing order.
C20_DeliveredInWriteOrder ==
    \A c \in Chans :
        \A i, j \in DOMAIN obs[c].messages :
            i < j => obs[c].messages[i] < obs[c].messages[j]

\* C20 witness: two messages of one connection have been delivered
C20_TwoDelivered ==
    \E c \in Chans : Len(obs[c].messages) >= 2

\* C21 as stated: when the receive loop of a connection ends, on end of
\* stream or on a decode error, whether the connection was accepted or
\* dialled, its channel is closed and it is no longer the entry of its key
\* in the Connection Table.
C21_LoopEndClosesChannel ==
    [][\A c \in Chans :
          (chan[c].pc = "listen" /\ chan'[c].pc = "done")
              => /\ chan'[c].wclosed
                 /\ connected_peers'[chan[c].key] # c]_vars

\* C22 as stated: when the entry of a key has been replaced by a newer
\* connection whose receive loop is running, the end of the older
\* connection's receive loop leaves the Connection Table as it is and emits
\* no peer_disconnected.
C22_OlderLoopEndKeepsNewer ==
    [][\A c \in Chans :
          (/\ chan[c].pc = "listen" /\ chan'[c].pc = "done"
           /\ connected_peers[chan[c].key] \notin {c, NoChan}
           /\ chan[connected_peers[chan[c].key]].pc = "listen")
              => /\ connected_peers' = connected_peers
                 /\ obs'[c].disconnected = obs[c].disconnected]_vars

\* C23 as stated: while the node is running, every entry of the Connection
\* Table belongs to a connection whose task is writing the handshake_ack,
\* is about to enter the receive loop, or is in the receive loop.
C23_EveryEntryHasLoop ==
    is_running =>
        \A k \in Keys :
            connected_peers[k] # NoChan
                => chan[connected_peers[k]].pc \in {"ack_drain", "spawned", "listen"}

\* C24 as stated: once the tracker has served the unregister call of stop(),
\* no step of the node's heartbeat loop sets the node's record back to
\* active.
C24_NoHeartbeatAfterUnregister ==
    [][\A ok \in BOOLEAN :
          (/\ ~is_running
           /\ unregAfter[Self]
           /\ heartbeat_loop(ok))
              => db'[Self].is_active = db[Self].is_active]_vars

====
